---- MODULE Spec2Model ----
(***************************************************************************)
(* SecureRAG: the query pipeline of src/engine.py (SecureRAGEngine), the   *)
(* response extraction it uses, and the conversation memory behind it.     *)
(*                                                                         *)
(* Text.  A Python string is a sequence of tokens; every token stands for  *)
(* one fixed substring, and a text is the concatenation of its tokens:     *)
(*    "F"  ```                 "J"  json              "W"  \n              *)
(*    " "  one blank           "{"  {                 "}"  }               *)
(*    ","  ,                   "N"  null              "P"  Hello           *)
(*    "A"  "answer":"X is Y"         "A0" "answer":""                      *)
(*    "AT" "answer":"You idiot"      "AE" "answer":"Mail bob@x.org"        *)
(*    "C"  "confidence":"high"       "CX" "confidence":"certain"           *)
(*    "S"  "sources":["a.txt"]       "K"  "meta":                          *)
(*    "q"  one letter of a user query                                      *)
(*    "V"  X is Y     "T"  You idiot     "M" Mail (and a blank)            *)
(*    "E"  bob@x.org                                                       *)
(*    "QTS" Query too short.         "SYSERR"  System Error: (and a blank) *)
(*    "Eretrieval", "Egeneration", "Eredis"  the text of an exception      *)
(* No token but "F" holds a backquote, none but "{" and "}" a brace, and   *)
(* none but "W" and " " starts or ends with white space, so the regular    *)
(* expressions and the JSON grammar read a text token by token exactly as  *)
(* they read it character by character.                                    *)
(*                                                                         *)
(* Two kinds of JSON text are written by the program and never searched:   *)
(* the string json.dumps makes of a message for Redis, and the error       *)
(* fragment of query_stream.  Their tokens are written out in full:        *)
(*    {"role": "     ", "content": "     "}     {"error": "                *)
(* and inside the string for Redis a backslash token stands before every   *)
(* token that json.dumps escapes.                                          *)
(***************************************************************************)
EXTENDS Integers, Sequences, FiniteSets, TLC

VARIABLES
    memory_enabled,   \* SecureRAGEngine.memory is not None
    use_redis,        \* ConversationMemory.use_redis
    memory_store,     \* ConversationMemory.memory_store: session id -> list of messages
    redis_lists,      \* the Redis lists under "conversation:<session id>"
    redis_ttl,        \* the seconds each Redis key has left
    last,             \* the call that completed last, and what it did
    response,         \* the raw generation text given to the extraction
    extracted,        \* what the extraction made of it
    validation,       \* a record given to RAGResponse, and what came of it
    stream,           \* the generator query_stream returned, where it stands
    journal,          \* the calls made on the memory and the time that passed
    calls             \* the requests in flight at the same time, where each stands

vars == <<memory_enabled, use_redis, memory_store, redis_lists, redis_ttl, last,
          response, extracted, validation, stream, journal, calls>>

---------------------------------------------------------------------------
(* Bounds of the model *)

\* the longest raw generation text, in pieces, that the extraction is run on
MaxPieces == 3

\* the most messages the memory holds, over all sessions, before the model
\* stops appending
MaxMessages == 3

\* the most fragments with content one generation streams
MaxChunks == 2

\* the largest limit get_history is called with
MaxLimit == 2

\* the most messages given to add_message between two clear_history calls
\* when the memory is called alone
MaxAppends == 2

\* the most Redis commands that fail when the memory is called alone
MaxFailures == 1

\* the longest answer, in tokens, given to RAGResponse
MaxAnswerToks == 5

\* the most requests in flight at the same time
MaxCalls == 2

---------------------------------------------------------------------------
(* Program constants *)

MinQueryLen == 3
RedisTTL == 3600
DefaultLimit == 10
AnswerMinLen == 5
AnswerMaxLen == 1000
ValidateMinLen == 5

---------------------------------------------------------------------------
(* Strings *)

IsSpace(t) == t \in {"W", " "}

\* the number of characters of each token
TokLen(t) ==
    CASE t \in {"W", " ", "{", "}", ",", "q"} -> 1
      [] t = "F" -> 3
      [] t \in {"J", "N"} -> 4
      [] t \in {"P", "M"} -> 5
      [] t = "V" -> 6
      [] t \in {"T", "E"} -> 9
      [] t = "A0" -> 11
      [] t = "SYSERR" -> 14
      [] t = "QTS" -> 16
      [] t = "A" -> 17
      [] t \in {"C", "S", "AT"} -> 20
      [] t = "CX" -> 23
      [] t = "AE" -> 25
      [] t = "K" -> 7
      [] t = "Eredis" -> 6
      [] t = "Eretrieval" -> 10
      [] t = "Egeneration" -> 11
      [] OTHER -> 1

RECURSIVE StrLen(_)
\* len(s)
StrLen(s) == IF s = <<>> THEN 0 ELSE TokLen(Head(s)) + StrLen(Tail(s))

RECURSIVE LStrip(_)
LStrip(s) == IF s # <<>> /\ IsSpace(Head(s)) THEN LStrip(Tail(s)) ELSE s

RECURSIVE RStrip(_)
RStrip(s) ==
    IF s # <<>> /\ IsSpace(s[Len(s)]) THEN RStrip(SubSeq(s, 1, Len(s) - 1)) ELSE s

\* s.strip()
Strip(s) == RStrip(LStrip(s))

\* s.startswith(p)
StartsWith(s, p) == Len(p) <= Len(s) /\ SubSeq(s, 1, Len(p)) = p

---------------------------------------------------------------------------
(* json.loads, on the tokens *)

Keys == {"answer", "confidence", "sources", "meta"}

\* the tokens that are one whole  "key":value  member
PairToks == {"A", "A0", "AT", "AE", "C", "CX", "S"}

MemberKey(t) ==
    CASE t \in {"A", "A0", "AT", "AE"} -> "answer"
      [] t \in {"C", "CX"} -> "confidence"
      [] t = "S" -> "sources"
      [] OTHER -> "meta"

\* the value of a member: a text, a confidence or a list of file names,
\* each as a sequence
MemberVal(t) ==
    CASE t = "A" -> <<"V">>
      [] t = "A0" -> <<>>
      [] t = "AT" -> <<"T">>
      [] t = "AE" -> <<"M", "E">>
      [] t = "C" -> <<"high">>
      [] t = "CX" -> <<"certain">>
      [] t = "S" -> <<"a.txt">>
      [] OTHER -> <<>>

EmptyDict == [k \in {} |-> <<>>]

\* d[k] = v
Put(d, k, v) == (k :> v) @@ d

\* json.JSONDecodeError
DecodeError == [ok |-> FALSE, kind |-> "error", d |-> EmptyDict, next |-> 0]

Parsed(kind, d, next) == [ok |-> TRUE, kind |-> kind, d |-> d, next |-> next]

RECURSIVE SkipWs(_, _)
\* the first position from i on that holds no white space
SkipWs(s, i) == IF i <= Len(s) /\ IsSpace(s[i]) THEN SkipWs(s, i + 1) ELSE i

RECURSIVE ParseValue(_, _)
RECURSIVE ParseMember(_, _, _)
RECURSIVE AfterMember(_, _, _)

\* one JSON value starting at position i: null or an object
ParseValue(s, i) ==
    IF i > Len(s) THEN DecodeError
    ELSE IF s[i] = "N" THEN Parsed("null", EmptyDict, i + 1)
    ELSE IF s[i] = "{" THEN
        LET j == SkipWs(s, i + 1) IN
        IF j <= Len(s) /\ s[j] = "}" THEN Parsed("dict", EmptyDict, j + 1)
        ELSE ParseMember(s, j, EmptyDict)
    ELSE DecodeError

\* one member of an object starting at position i (a key is expected there)
ParseMember(s, i, acc) ==
    IF i > Len(s) THEN DecodeError
    ELSE IF s[i] \in PairToks
        THEN AfterMember(s, i + 1, Put(acc, MemberKey(s[i]), MemberVal(s[i])))
    ELSE IF s[i] = "K" THEN
        LET v == ParseValue(s, SkipWs(s, i + 1)) IN
        IF v.ok THEN AfterMember(s, v.next, Put(acc, "meta", <<v.kind>>))
        ELSE DecodeError
    ELSE DecodeError

\* after a member: a comma and the next member, or the closing brace
AfterMember(s, i, acc) ==
    LET j == SkipWs(s, i) IN
    IF j > Len(s) THEN DecodeError
    ELSE IF s[j] = "}" THEN Parsed("dict", acc, j + 1)
    ELSE IF s[j] = "," THEN ParseMember(s, SkipWs(s, j + 1), acc)
    ELSE DecodeError

\* json.loads(s): one value, white space around it, nothing after it
json_loads(s) ==
    LET v == ParseValue(s, SkipWs(s, 1)) IN
    IF v.ok /\ SkipWs(s, v.next) > Len(s) THEN v ELSE DecodeError

---------------------------------------------------------------------------
(* The two regular expressions of the extraction, searched as re.search    *)
(* does: the leftmost start, and from it the shortest .*? that lets the    *)
(* rest of the pattern match.                                              *)

NoMatch == [found |-> FALSE, from |-> 0, to |-> 0]

\* where group 1 of  ```(?:json)?\s*(\{.*?\})\s*```  starts, for a match
\* starting at i
FenceGroupStart(s, i) ==
    SkipWs(s, IF i + 1 <= Len(s) /\ s[i + 1] = "J" THEN i + 2 ELSE i + 1)

\* the closing braces that  \s*```  follows
FenceGroupEnds(s, p) ==
    {q \in (p + 1)..Len(s) :
        /\ s[q] = "}"
        /\ LET r == SkipWs(s, q + 1) IN r <= Len(s) /\ s[r] = "F"}

Min(S) == CHOOSE x \in S : \A y \in S : x <= y

\* the starts at which the fenced pattern matches
FenceStarts(s) ==
    {i \in 1..Len(s) :
        /\ s[i] = "F"
        /\ LET p == FenceGroupStart(s, i) IN
           /\ p <= Len(s)
           /\ s[p] = "{"
           /\ FenceGroupEnds(s, p) # {}}

\* re.search(r'```(?:json)?\s*(\{.*?\})\s*```', s, re.DOTALL): its group 1
FencedBlockSearch(s) ==
    IF FenceStarts(s) = {} THEN NoMatch
    ELSE LET p == FenceGroupStart(s, Min(FenceStarts(s))) IN
         [found |-> TRUE, from |-> p, to |-> Min(FenceGroupEnds(s, p))]

\* re.search(r'\{.*?\}', s, re.DOTALL): its group 0
BraceSearch(s) ==
    LET opens == {p \in 1..Len(s) :
                    s[p] = "{" /\ \E q \in (p + 1)..Len(s) : s[q] = "}"} IN
    IF opens = {} THEN NoMatch
    ELSE LET p == Min(opens) IN
         [found |-> TRUE, from |-> p,
          to |-> Min({q \in (p + 1)..Len(s) : s[q] = "}"})]

Group(s, m) == SubSeq(s, m.from, m.to)

---------------------------------------------------------------------------
(* SecureRAGEngine._extract_json_from_response *)

\* (a variant that trims the raw text it wraps)
FallbackRecord_Trimmed(raw) ==
    [answer |-> Strip(raw), confidence |-> <<"low">>, sources |-> <<>>]

\* the record returned when every parse failed
FallbackRecord(raw) ==
    [answer |-> raw, confidence |-> <<"low">>, sources |-> <<>>]

\* the value the function returns: kind "dict" with the mapping d, or kind
\* "null" when json.loads returned a value that is no mapping
extract_json_from_response(resp) ==
    LET direct == json_loads(resp) IN
    IF direct.ok THEN [kind |-> direct.kind, d |-> direct.d]
    ELSE
        LET m1 == FencedBlockSearch(resp)
            j1 == IF m1.found THEN json_loads(Group(resp, m1)) ELSE DecodeError
            m2 == BraceSearch(resp)
            j2 == IF m2.found THEN json_loads(Group(resp, m2)) ELSE DecodeError
        IN
        IF j1.ok THEN [kind |-> j1.kind, d |-> j1.d]
        ELSE IF j2.ok THEN [kind |-> j2.kind, d |-> j2.d]
        ELSE [kind |-> "dict", d |-> FallbackRecord(resp)]

\* (a variant that leaves a missing sources key missing)
Backfill_NoSources(d, raw) ==
    LET d1 == IF "answer" \in DOMAIN d THEN d ELSE Put(d, "answer", raw)
    IN IF "confidence" \in DOMAIN d1 THEN d1 ELSE Put(d1, "confidence", <<"low">>)

\* the missing keys of a parsed mapping, filled in (query, step 4)
Backfill(d, raw) ==
    LET d1 == IF "answer" \in DOMAIN d THEN d ELSE Put(d, "answer", raw)
        d2 == IF "confidence" \in DOMAIN d1 THEN d1 ELSE Put(d1, "confidence", <<"low">>)
    IN IF "sources" \in DOMAIN d2 THEN d2 ELSE Put(d2, "sources", <<>>)

\* step 4 of query: extract, check that the result is a mapping, fill in
\* the missing keys; any exception gives the wrapped raw text
ExtractStep(raw) ==
    LET r == extract_json_from_response(raw) IN
    IF r.kind # "dict" THEN FallbackRecord(raw) ELSE Backfill(r.d, raw)

---------------------------------------------------------------------------
(* ConversationMemory *)

Sessions == {"s1", "s2"}

\* session_id = None
None == "None"

Message(role, content) == [role |-> role, content |-> content]

\* the tokens json.dumps writes behind a backslash: the line feed, and
\* the tokens that hold a double quote
NeedsEscape(t) == t \in PairToks \cup {"K", "W"}

RECURSIVE Escape(_)
\* the inside of the JSON string literal of a text
Escape(text) ==
    IF text = <<>> THEN <<>>
    ELSE (IF NeedsEscape(Head(text)) THEN <<"\\", Head(text)>> ELSE <<Head(text)>>)
         \o Escape(Tail(text))

RECURSIVE Unescape(_)
\* (a variant that keeps the backslashes it reads)
Unescape_KeepsBackslash(lit) ==
    IF lit = <<>> THEN <<>>
    ELSE IF Head(lit) = "\\" /\ Len(lit) >= 2
        THEN <<"\\", lit[2]>> \o Unescape(Tail(Tail(lit)))
    ELSE <<Head(lit)>> \o Unescape(Tail(lit))

\* the text a JSON string literal denotes
Unescape(lit) ==
    IF lit = <<>> THEN <<>>
    ELSE IF Head(lit) = "\\" /\ Len(lit) >= 2
        THEN <<lit[2]>> \o Unescape(Tail(Tail(lit)))
    ELSE <<Head(lit)>> \o Unescape(Tail(lit))

\* json.dumps(message), the string add_message pushes: the tokens
\*   {"role": "   <role>   ", "content": "   <content, escaped>   "}
json_dumps(message) ==
    <<"{\"role\": \"", message.role, "\", \"content\": \"">>
        \o Escape(message.content) \o <<"\"}">>

\* json.loads(msg) on a string json.dumps(message) wrote
json_loads_message(msg) ==
    [role |-> msg[2], content |-> Unescape(SubSeq(msg, 4, Len(msg) - 1))]

\* [json.loads(msg) for msg in messages]
LoadAll(messages) == [i \in 1..Len(messages) |-> json_loads_message(messages[i])]

\* lst[-limit:], which is also what LRANGE key -limit -1 returns: for
\* limit = 0 both are the whole list (lst[0:], LRANGE key 0 -1)
LastN(lst, limit) ==
    IF limit = 0 \/ limit >= Len(lst) THEN lst
    ELSE SubSeq(lst, Len(lst) - limit + 1, Len(lst))

\* the list a backend holds for a session; a missing key reads as empty
Stored(store, sid) == IF sid \in DOMAIN store THEN store[sid] ELSE <<>>

\* the whole history a session has in the backend in use
History(sid) ==
    IF use_redis THEN LoadAll(Stored(redis_lists, sid))
    ELSE Stored(memory_store, sid)

RECURSIVE SumLen(_, _)
SumLen(store, sids) ==
    IF sids = {} THEN 0
    ELSE LET sid == CHOOSE x \in sids : TRUE
         IN Len(store[sid]) + SumLen(store, sids \ {sid})

\* the number of messages in the backend in use
TotalMessages ==
    IF use_redis THEN SumLen(redis_lists, DOMAIN redis_lists)
    ELSE SumLen(memory_store, DOMAIN memory_store)

\* ConversationMemory.get_history
get_history(sid, limit) == LastN(History(sid), limit)

\* (a variant that puts the message in front)
StoreAppend_Prepends(store, sid, msg) ==
    (sid :> <<msg>> \o Stored(store, sid)) @@ store

\* memory_store after add_message on the in-process backend
StoreAppend(store, sid, msg) ==
    (sid :> Append(Stored(store, sid), msg)) @@ store

\* the TTLs after EXPIRE key 3600
Expire(ttl, sid) == (sid :> RedisTTL) @@ ttl

\* (a variant that drops every key)
Without_DropsAll(store, sid) == [k \in {} |-> <<>>]

\* a mapping without one key: dict.pop(sid, None), DEL key
Without(store, sid) == [k \in DOMAIN store \ {sid} |-> store[k]]

\* (a variant that sets the key to a list of the one value)
rpush_Overwrites(mem, sid, value) ==
    [mem EXCEPT !.lists = (sid :> <<value>>) @@ mem.lists]

\* RPUSH key value: the value at the end of the list, a list that did not
\* exist created without a time to live
rpush(mem, sid, value) ==
    [mem EXCEPT !.lists = StoreAppend(mem.lists, sid, value)]

\* EXPIRE key 3600
expire(mem, sid) == [mem EXCEPT !.ttl = Expire(mem.ttl, sid)]

\* ConversationMemory.add_message on the object whose use_redis is redis,
\* where the Redis command fault raises (redis.RedisError): the stores it
\* leaves, and whether the exception left the call
add_message_call(redis, mem, sid, role, content, fault) ==
    IF ~redis THEN
        [mem |-> [mem EXCEPT !.store =
                      StoreAppend(mem.store, sid, Message(role, content))],
         raised |-> FALSE]
    ELSE IF fault = "rpush" THEN [mem |-> mem, raised |-> TRUE]
    ELSE IF fault = "expire" THEN
        [mem |-> rpush(mem, sid, json_dumps(Message(role, content))),
         raised |-> TRUE]
    ELSE
        [mem |-> expire(rpush(mem, sid, json_dumps(Message(role, content))), sid),
         raised |-> FALSE]

\* ConversationMemory.get_history on the object whose use_redis is redis:
\* the list it returns, or the exception of LRANGE
get_history_call(redis, mem, sid, limit, fault) ==
    IF ~redis THEN [value |-> LastN(Stored(mem.store, sid), limit), raised |-> FALSE]
    ELSE IF fault = "lrange" THEN [value |-> <<>>, raised |-> TRUE]
    ELSE [value |-> LoadAll(LastN(Stored(mem.lists, sid), limit)), raised |-> FALSE]

\* (a variant that empties the list and keeps the key)
clear_history_call_KeepsOne(redis, mem, sid, fault) ==
    IF ~redis THEN
        [mem |-> [mem EXCEPT !.store =
                      IF Len(Stored(mem.store, sid)) > 1
                      THEN (sid :> <<mem.store[sid][1]>>) @@ mem.store
                      ELSE Without(mem.store, sid)],
         raised |-> FALSE]
    ELSE IF fault = "delete" THEN [mem |-> mem, raised |-> TRUE]
    ELSE [mem |-> [mem EXCEPT !.lists = Without(mem.lists, sid),
                              !.ttl = Without(mem.ttl, sid)],
          raised |-> FALSE]

\* ConversationMemory.clear_history on the object whose use_redis is redis
clear_history_call(redis, mem, sid, fault) ==
    IF ~redis THEN
        [mem |-> [mem EXCEPT !.store = Without(mem.store, sid)], raised |-> FALSE]
    ELSE IF fault = "delete" THEN [mem |-> mem, raised |-> TRUE]
    ELSE [mem |-> [mem EXCEPT !.lists = Without(mem.lists, sid),
                              !.ttl = Without(mem.ttl, sid)],
          raised |-> FALSE]

\* ConversationMemory.add_message of the engine's memory, no command failing
add_message(mem, sid, role, content) ==
    add_message_call(use_redis, mem, sid, role, content, "none").mem

\* ConversationMemory.clear_history of the engine's memory
clear_history(mem, sid) == clear_history_call(use_redis, mem, sid, "none").mem

Mem == [store |-> memory_store, lists |-> redis_lists, ttl |-> redis_ttl]

\* Redis after dt seconds: every key whose time to live has run out is
\* gone, the others have dt seconds less; a key without a time to live stays
RedisAfter(mem, dt) ==
    LET live == {k \in DOMAIN mem.lists :
                    k \notin DOMAIN mem.ttl \/ mem.ttl[k] > dt}
    IN [mem EXCEPT !.lists = [k \in live |-> mem.lists[k]],
                   !.ttl = [k \in live \cap DOMAIN mem.ttl |-> mem.ttl[k] - dt]]

\* nothing has been called and no time has passed.  Of each session the
\* journal holds  appended: the messages given to add_message since the
\* last clear_history of the session;  idle: the seconds since the last
\* RPUSH on its key (at most RedisTTL are counted);  and of Redis how many
\* commands have failed and whether a key has expired
NoJournal ==
    [appended |-> [sid \in Sessions |-> <<>>],
     idle |-> [sid \in Sessions |-> 0],
     failures |-> 0,
     expired |-> FALSE]

\* the requests the service can have in flight
CallIds == 1..MaxCalls

\* no request in flight: of each request calls holds the function called,
\* the session id given, where the request stands and how many messages it
\* has appended
NoCalls ==
    [c \in CallIds |->
        [pc |-> "idle", kind |-> "none", session_id |-> None, appends |-> 0]]

---------------------------------------------------------------------------
(* SecureRAGEngine.query *)

\* the result of the input guard
TooShortResult ==
    [answer |-> <<"QTS">>, confidence |-> <<"low">>, sources |-> <<>>]

\* (a variant that returns the message of the exception alone)
SystemErrorResult_NoPrefix(msg) ==
    [answer |-> <<msg>>, confidence |-> <<"low">>, sources |-> <<>>]

\* the result of the handler of the outer try
SystemErrorResult(msg) ==
    [answer |-> <<"SYSERR", msg>>, confidence |-> <<"low">>, sources |-> <<>>]

\* (a variant with the bound off by one)
TooShort_OffByOne(user_query) == StrLen(user_query) < MinQueryLen - 1

\* len(user_query) < 3
TooShort(user_query) == StrLen(user_query) < MinQueryLen

\* if self.memory and session_id
UsesMemory(session_id) == memory_enabled /\ session_id # None

\* (a variant that stores a message before it gives up)
RetrievalFailed_SavesFirst(run) ==
    [run EXCEPT !.result = SystemErrorResult("Eretrieval"),
                !.retrieval_calls = 1, !.memory_appends = 1,
                !.mem = add_message(run.mem, "s1", "user", <<"q", "q", "q">>)]

\* self.chain.invoke raises in the retriever: the handler of the outer try
\* returns the system error; the model has not been called, nothing is
\* saved
RetrievalFailed(run) ==
    [run EXCEPT !.result = SystemErrorResult("Eretrieval"),
                !.retrieval_calls = 1]

\* (a variant that calls the model a second time before it gives up)
GenerationFailed_Retries(run) ==
    [run EXCEPT !.result = SystemErrorResult("Egeneration"),
                !.retrieval_calls = 1, !.generation_calls = 2]

\* self.chain.invoke raises in the model: the handler of the outer try
\* returns the system error; the model has been called once, nothing is
\* saved
GenerationFailed(run) ==
    [run EXCEPT !.result = SystemErrorResult("Egeneration"),
                !.retrieval_calls = 1, !.generation_calls = 1]

\* what one call of query does: the result it returns (raised: an exception
\* left the call instead), the memory it leaves, and the calls it made to
\* its collaborators.
\*   gen   what self.chain.invoke does: the retriever raises, the model
\*         raises, or the model returns the text gen.raw
\*   fault the Redis command that raises in this call, if any
QueryRun(user_query, session_id, gen, fault) ==
    LET none == [result |-> TooShortResult, raised |-> FALSE, mem |-> Mem,
                 retrieval_calls |-> 0, generation_calls |-> 0,
                 memory_reads |-> 0, memory_appends |-> 0]
        reads == IF UsesMemory(session_id) THEN 1 ELSE 0
        candidate == ExtractStep(gen.raw)
        mem1 == add_message(Mem, session_id, "user", user_query)
        mem2 == add_message(mem1, session_id, "assistant", candidate.answer)
    IN
    IF TooShort(user_query) THEN none
    ELSE IF UsesMemory(session_id) /\ fault = "get_history" THEN
        [none EXCEPT !.result = SystemErrorResult("Eredis"), !.memory_reads = 1]
    ELSE IF gen.kind = "retrieval_error" THEN
        RetrievalFailed([none EXCEPT !.memory_reads = reads])
    ELSE IF gen.kind = "generation_error" THEN
        GenerationFailed([none EXCEPT !.memory_reads = reads])
    ELSE IF ~UsesMemory(session_id) THEN
        [none EXCEPT !.result = candidate, !.retrieval_calls = 1,
                     !.generation_calls = 1]
    ELSE IF fault = "add_user" THEN
        [none EXCEPT !.result = SystemErrorResult("Eredis"), !.memory_reads = 1,
                     !.retrieval_calls = 1, !.generation_calls = 1]
    ELSE IF fault = "add_assistant" THEN
        [none EXCEPT !.result = SystemErrorResult("Eredis"), !.mem = mem1,
                     !.memory_reads = 1, !.retrieval_calls = 1,
                     !.generation_calls = 1, !.memory_appends = 1]
    ELSE
        [none EXCEPT !.result = candidate, !.mem = mem2, !.memory_reads = 1,
                     !.retrieval_calls = 1, !.generation_calls = 1,
                     !.memory_appends = 2]

---------------------------------------------------------------------------
(* SecureRAGEngine.query_stream *)

\* json.dumps({"error": msg})
ErrorFragment(msg) == <<"{\"error\": \"", msg, "\"}">>

\* no generator: query_stream has not been called
NoStream ==
    [pc |-> "none", user_query |-> <<>>, session_id |-> None,
     yielded |-> <<>>, full_response |-> <<>>, outcome |-> "none",
     retrieval_calls |-> 0, generation_calls |-> 0,
     memory_reads |-> 0, memory_appends |-> 0]

\* the generator is suspended at a yield
Suspended(st) == st.pc \in {"guard_yield", "chunk_yield", "except_yield"}

\* the two add_message calls after the loop, where the Redis command fault
\* raises: the stores they leave, the appends made, and whether an
\* exception left them
SaveTurn(mem, sid, user_query, full_response, fault) ==
    LET u == add_message_call(use_redis, mem, sid, "user", user_query,
                 CASE fault = "user_rpush" -> "rpush"
                   [] fault = "user_expire" -> "expire"
                   [] OTHER -> "none")
        a == add_message_call(use_redis, u.mem, sid, "assistant", full_response,
                 CASE fault = "assistant_rpush" -> "rpush"
                   [] fault = "assistant_expire" -> "expire"
                   [] OTHER -> "none")
    IN IF u.raised
       THEN [mem |-> u.mem, raised |-> TRUE,
             appends |-> IF fault = "user_expire" THEN 1 ELSE 0]
       ELSE [mem |-> a.mem, raised |-> a.raised,
             appends |-> IF fault = "assistant_rpush" THEN 1 ELSE 2]

\* (a variant of the handler that ends the sequence without a fragment)
ExceptHandler_Silent(st, msg, outcome) ==
    [st EXCEPT !.pc = "done", !.outcome = outcome]

\* except Exception as e: yield json.dumps({"error": str(e)})
ExceptHandler(st, msg, outcome) ==
    [st EXCEPT !.pc = "except_yield", !.outcome = outcome,
               !.yielded = Append(st.yielded, ErrorFragment(msg))]

\* (a variant of the guard that lets the query through to the retriever)
GuardYield_Retrieves(st) ==
    [st EXCEPT !.pc = "guard_yield", !.outcome = "guard",
               !.retrieval_calls = 1,
               !.yielded = Append(st.yielded, ErrorFragment("Query too short"))]

\* if len(user_query) < 3: yield json.dumps({"error": "Query too short"})
GuardYield(st) ==
    [st EXCEPT !.pc = "guard_yield", !.outcome = "guard",
               !.yielded = Append(st.yielded, ErrorFragment("Query too short"))]

\* one resumption of the generator (the consumer awaits the next fragment),
\* from where it stands to its next yield or its end.  o is what the
\* collaborators do in it: the retriever raises; or the model sends its
\* next chunk with content (the loop passes over a chunk without), which
\* is o.content, or raises, or ends, and then the Redis command o.fault
\* raises
StreamResume(st, mem, o) ==
    LET got == IF st.pc = "created"
               THEN [st EXCEPT !.retrieval_calls = 1, !.generation_calls = 1]
               ELSE st
        save == SaveTurn(mem, st.session_id, st.user_query, st.full_response,
                         o.fault)
    IN
    CASE o.kind = "guard" -> [stream |-> GuardYield(st), mem |-> mem]
      [] o.kind = "return" -> [stream |-> [st EXCEPT !.pc = "done"], mem |-> mem]
      [] o.kind = "retrieval_error" ->
            [stream |-> ExceptHandler([st EXCEPT !.retrieval_calls = 1],
                                      "Eretrieval", "retrieval_error"),
             mem |-> mem]
      [] o.kind = "chunk" ->
            [stream |-> [got EXCEPT !.pc = "chunk_yield",
                            !.full_response = st.full_response \o o.content,
                            !.yielded = Append(st.yielded, o.content)],
             mem |-> mem]
      [] o.kind = "generation_error" ->
            [stream |-> ExceptHandler(got, "Egeneration", "generation_error"),
             mem |-> mem]
      [] o.kind = "end" /\ ~(memory_enabled /\ st.session_id # None) ->
            [stream |-> [got EXCEPT !.pc = "done", !.outcome = "completed"],
             mem |-> mem]
      [] o.kind = "end" /\ save.raised ->
            [stream |-> ExceptHandler([got EXCEPT !.memory_appends = save.appends],
                                      "Eredis", "memory_error"),
             mem |-> save.mem]
      [] OTHER ->
            [stream |-> [got EXCEPT !.pc = "done", !.outcome = "completed",
                            !.memory_appends = save.appends],
             mem |-> save.mem]

---------------------------------------------------------------------------
(* The inputs *)

\* user queries: two letters; a letter and two blanks; three letters
UserQueries == {<<"q", "q">>, <<"q", " ", " ">>, <<"q", "q", "q">>}

SessionIds == Sessions \cup {None}

\* raw generation texts: the text null, which is JSON but no object; the
\* object asked for; a toxic answer; an answer with an e-mail address and a
\* confidence outside the enum
RawTexts ==
    { <<"N">>,
      <<"{", "A", ",", "C", ",", "S", "}">>,
      <<"{", "AT", ",", "C", "}">>,
      <<"{", "AE", ",", "CX", "}">> }

\* self.chain.invoke was not reached
NotCalled == [kind |-> "none", raw |-> <<>>]

Generations ==
    {[kind |-> "retrieval_error", raw |-> <<>>],
     [kind |-> "generation_error", raw |-> <<>>]}
    \cup {[kind |-> "text", raw |-> r] : r \in RawTexts}

\* what the collaborators of one call can do, as far as the call reaches
\* them: gen is what self.chain.invoke does, fault the Redis command that
\* raises.  A call stopped by the input guard reaches none; a call whose
\* get_history raises never invokes the chain; add_message is reached only
\* after a generation that returned.
Outcomes(user_query, session_id) ==
    IF TooShort(user_query) THEN {[gen |-> NotCalled, fault |-> "none"]}
    ELSE
        {[gen |-> g, fault |-> "none"] : g \in Generations}
        \cup
        (IF use_redis /\ UsesMemory(session_id)
         THEN {[gen |-> NotCalled, fault |-> "get_history"]}
              \cup {[gen |-> [kind |-> "text", raw |-> r], fault |-> f] :
                        r \in RawTexts, f \in {"add_user", "add_assistant"}}
         ELSE {})

NoCall ==
    [op |-> "none", tick |-> 0, user_query |-> <<>>, session_id |-> None,
     gen |-> NotCalled, fault |-> "none",
     result |-> EmptyDict, raised |-> FALSE, retrieval_calls |-> 0,
     generation_calls |-> 0,
     memory_reads |-> 0, memory_appends |-> 0]

---------------------------------------------------------------------------
(* The engine as a state machine *)

\* SecureRAGEngine.__init__ and ConversationMemory.__init__: memory on or
\* off, Redis reachable or not, both stores empty
Init ==
    /\ memory_enabled \in BOOLEAN
    /\ use_redis \in (IF memory_enabled THEN BOOLEAN ELSE {FALSE})
    /\ memory_store = EmptyDict
    /\ redis_lists = EmptyDict
    /\ redis_ttl = EmptyDict
    /\ last = NoCall
    /\ response = <<>>
    /\ extracted = [state |-> "idle"]
    /\ validation = [state |-> "idle"]
    /\ stream = NoStream
    /\ journal = NoJournal
    /\ calls = NoCalls

\* one call of query, from entry to return
Query(user_query, session_id, gen, fault) ==
    \E run \in {QueryRun(user_query, session_id, gen, fault)} :
    /\ TotalMessages + run.memory_appends <= MaxMessages
    /\ memory_store' = run.mem.store
    /\ redis_lists' = run.mem.lists
    /\ redis_ttl' = run.mem.ttl
    /\ last' = [op |-> "query", tick |-> 1 - last.tick, user_query |-> user_query,
                session_id |-> session_id, gen |-> gen, fault |-> fault,
                result |-> run.result, raised |-> run.raised,
                retrieval_calls |-> run.retrieval_calls,
                generation_calls |-> run.generation_calls,
                memory_reads |-> run.memory_reads,
                memory_appends |-> run.memory_appends]
    /\ UNCHANGED <<calls, memory_enabled, use_redis, response, extracted, validation,
                   stream, journal>>

\* DELETE /memory/{session_id}: clear_history when memory is enabled
ClearMemory(session_id) ==
    \E mem \in {IF memory_enabled THEN clear_history(Mem, session_id) ELSE Mem} :
    /\ memory_store' = mem.store
    /\ redis_lists' = mem.lists
    /\ redis_ttl' = mem.ttl
    /\ last' = [NoCall EXCEPT !.op = "clear", !.tick = 1 - last.tick,
                              !.session_id = session_id]
    /\ UNCHANGED <<calls, memory_enabled, use_redis, response, extracted, validation,
                   stream, journal>>

Next ==
    \/ \E user_query \in UserQueries, session_id \in SessionIds :
          \E o \in Outcomes(user_query, session_id) :
              Query(user_query, session_id, o.gen, o.fault)
    \/ \E session_id \in Sessions : ClearMemory(session_id)

Spec == Init /\ [][Next]_vars

---------------------------------------------------------------------------
(* query_stream, one generator at a time, resumed by its consumer *)

\* the contents of the chunks the model streams
ChunkContents == {<<"P">>, <<" ", "V">>}

\* the queries streamed: two letters, three letters
StreamQueries == {<<"q", "q">>, <<"q", "q", "q">>}

StreamSessionIds == {"s1", None}

\* the Redis command that raises while the turn is saved
SaveFaults(st) ==
    IF use_redis /\ memory_enabled /\ st.session_id # None
    THEN {"none", "user_rpush", "user_expire", "assistant_rpush", "assistant_expire"}
    ELSE {"none"}

Outcome(kind, content, fault) ==
    [kind |-> kind, content |-> content, fault |-> fault]

\* what the collaborators can do in one resumption of the generator
StreamOutcomes(st) ==
    CASE st.pc = "created" /\ TooShort(st.user_query) ->
            {Outcome("guard", <<>>, "none")}
      [] st.pc \in {"guard_yield", "except_yield"} ->
            {Outcome("return", <<>>, "none")}
      [] st.pc \in {"created", "chunk_yield"} ->
            (IF st.pc = "created"
             THEN {Outcome("retrieval_error", <<>>, "none")} ELSE {})
            \cup {Outcome("chunk", c, "none") :
                    c \in (IF Len(st.yielded) < MaxChunks THEN ChunkContents ELSE {})}
            \cup {Outcome("generation_error", <<>>, "none")}
            \cup {Outcome("end", <<>>, f) : f \in SaveFaults(st)}
      [] OTHER -> {}

\* query_stream(user_query, session_id): the generator is made, none of
\* its code has run
StreamCall(user_query, session_id) ==
    /\ stream.pc \in {"none", "done", "closed"}
    /\ stream' = [NoStream EXCEPT !.pc = "created", !.user_query = user_query,
                                  !.session_id = session_id]
    /\ UNCHANGED <<calls, memory_enabled, use_redis, memory_store, redis_lists,
                   redis_ttl, last, response, extracted, validation, journal>>

\* the consumer awaits the next fragment
StreamNext(o) ==
    \E run \in {StreamResume(stream, Mem, o)} :
    /\ TotalMessages + run.stream.memory_appends <= MaxMessages
    /\ stream' = run.stream
    /\ memory_store' = run.mem.store
    /\ redis_lists' = run.mem.lists
    /\ redis_ttl' = run.mem.ttl
    /\ UNCHANGED <<calls, memory_enabled, use_redis, last, response, extracted,
                   validation, journal>>

\* the consumer stops: the generator is closed where it stands, and
\* GeneratorExit, which is no Exception, leaves it
StreamClose ==
    /\ stream.pc = "created" \/ Suspended(stream)
    /\ stream' = [stream EXCEPT !.pc = "closed"]
    /\ UNCHANGED <<calls, memory_enabled, use_redis, memory_store, redis_lists,
                   redis_ttl, last, response, extracted, validation, journal>>

NextStream ==
    \/ \E user_query \in StreamQueries, session_id \in StreamSessionIds :
          StreamCall(user_query, session_id)
    \/ \E o \in StreamOutcomes(stream) : StreamNext(o)
    \/ StreamClose

SpecStream == Init /\ [][NextStream]_vars

---------------------------------------------------------------------------
(* The memory alone: two ConversationMemory objects given the same calls,  *)
(* `durable`, which reached Redis when it was made (redis_lists and        *)
(* redis_ttl are its keys), and `ephemeral`, which did not (memory_store   *)
(* is its store)                                                           *)

\* the messages the calls append
MemoryMessages ==
    {Message("user", <<"q", "W">>), Message("assistant", <<"A", " ">>)}

Limits == 0..MaxLimit

\* the times that pass between two calls
ElapseSteps == {RedisTTL \div 2}

\* what get_history(sid) returns with its default limit, no command failing
DurableHistory(sid) == get_history_call(TRUE, Mem, sid, DefaultLimit, "none").value

EphemeralHistory(sid) == get_history_call(FALSE, Mem, sid, DefaultLimit, "none").value

\* a call on the two objects and what each returned; removed is the number
\* of messages a clear_history took from the store of `ephemeral`
MemoryCall(op, sid, message, limit, fault, durable, ephemeral) ==
    [op |-> op, session_id |-> sid, message |-> message,
     limit |-> limit, fault |-> fault, removed |-> 0,
     durable |-> durable, ephemeral |-> ephemeral]

Returned(value, raised) == [value |-> value, raised |-> raised]

InitMemory ==
    /\ memory_enabled = TRUE
    /\ use_redis = TRUE
    /\ memory_store = EmptyDict
    /\ redis_lists = EmptyDict
    /\ redis_ttl = EmptyDict
    /\ last = MemoryCall("none", None, Message("", <<>>), 0, "none",
                         Returned(<<>>, FALSE), Returned(<<>>, FALSE))
    /\ response = <<>>
    /\ extracted = [state |-> "idle"]
    /\ validation = [state |-> "idle"]
    /\ stream = NoStream
    /\ journal = NoJournal
    /\ calls = NoCalls

\* add_message(sid, role, content) on both objects
AddMessage(sid, message, fault) ==
    \E d \in {add_message_call(TRUE, Mem, sid, message.role, message.content, fault)} :
    \E e \in {add_message_call(FALSE, d.mem, sid, message.role, message.content, "none")} :
    /\ SumLen(journal.appended, Sessions) < MaxAppends
    /\ SumLen(redis_lists, DOMAIN redis_lists) < MaxAppends
    /\ fault # "none" => journal.failures < MaxFailures
    /\ memory_store' = e.mem.store
    /\ redis_lists' = e.mem.lists
    /\ redis_ttl' = e.mem.ttl
    /\ journal' = [journal EXCEPT
                      !.appended[sid] = Append(@, message),
                      !.idle[sid] = IF fault = "rpush" THEN @ ELSE 0,
                      !.failures = IF d.raised THEN @ + 1 ELSE @]
    /\ last' = MemoryCall("add_message", sid, message, 0, fault,
                          Returned(<<>>, d.raised), Returned(<<>>, e.raised))
    /\ UNCHANGED <<calls, memory_enabled, use_redis, response, extracted, validation,
                   stream>>

\* get_history(sid, limit) on both objects
GetHistory(sid, limit, fault) ==
    \E d \in {get_history_call(TRUE, Mem, sid, limit, fault)} :
    \E e \in {get_history_call(FALSE, Mem, sid, limit, "none")} :
    /\ fault # "none" => journal.failures < MaxFailures
    /\ journal' = [journal EXCEPT !.failures = IF d.raised THEN @ + 1 ELSE @]
    /\ last' = MemoryCall("get_history", sid, Message("", <<>>),
                          limit, fault, d, e)
    /\ UNCHANGED <<calls, memory_enabled, use_redis, memory_store, redis_lists,
                   redis_ttl, response, extracted, validation, stream>>

\* clear_history(sid) on both objects
ClearHistory(sid, fault) ==
    \E d \in {clear_history_call(TRUE, Mem, sid, fault)} :
    \E e \in {clear_history_call(FALSE, d.mem, sid, "none")} :
    /\ fault # "none" => journal.failures < MaxFailures
    /\ memory_store' = e.mem.store
    /\ redis_lists' = e.mem.lists
    /\ redis_ttl' = e.mem.ttl
    /\ journal' = [journal EXCEPT !.appended[sid] = <<>>,
                                  !.failures = IF d.raised THEN @ + 1 ELSE @]
    /\ last' = [MemoryCall("clear_history", sid, Message("", <<>>), 0, fault,
                           Returned(<<>>, d.raised), Returned(<<>>, e.raised))
                    EXCEPT !.removed = Len(Stored(memory_store, sid))]
    /\ UNCHANGED <<calls, memory_enabled, use_redis, response, extracted, validation,
                   stream>>

\* dt seconds pass with no call
Elapse(dt) ==
    \E r \in {RedisAfter(Mem, dt)} :
    /\ redis_lists' = r.lists
    /\ redis_ttl' = r.ttl
    /\ journal' = [journal EXCEPT
                      !.idle = [sid \in Sessions |->
                                   IF journal.idle[sid] + dt > RedisTTL THEN RedisTTL
                                   ELSE journal.idle[sid] + dt],
                      !.expired = @ \/ DOMAIN r.lists # DOMAIN redis_lists]
    /\ last' = MemoryCall("elapse", None, Message("", <<>>), 0, "none",
                          Returned(<<>>, FALSE), Returned(<<>>, FALSE))
    /\ UNCHANGED <<calls, memory_enabled, use_redis, memory_store, response,
                   extracted, validation, stream>>

NextMemory ==
    \/ \E sid \in Sessions, message \in MemoryMessages,
          fault \in {"none", "rpush", "expire"} : AddMessage(sid, message, fault)
    \/ \E sid \in Sessions, limit \in Limits, fault \in {"none", "lrange"} :
          GetHistory(sid, limit, fault)
    \/ \E sid \in Sessions, fault \in {"none", "delete"} : ClearHistory(sid, fault)
    \/ \E dt \in ElapseSteps : Elapse(dt)

SpecMemory == InitMemory /\ [][NextMemory]_vars

---------------------------------------------------------------------------
(* The extraction alone, on every raw text of up to MaxPieces pieces *)

\* the pieces a raw text is made of: single tokens, and the objects and the
\* fenced block a generation is asked for
Pieces ==
    { <<"P">>, <<"W">>, <<"F">>, <<"J">>, <<"{">>, <<"}">>, <<"N">>, <<"A">>,
      <<"{", "C", "}">>,
      <<"{", "A", ",", "C", ",", "S", "}">>,
      <<"{", "A", ",", "K", "{", "}", "}">>,
      <<"F", "J", "W", "{", "A", "}", "W", "F">> }

RECURSIVE Flatten(_)
Flatten(ps) == IF ps = <<>> THEN <<>> ELSE Head(ps) \o Flatten(Tail(ps))

RawInputs ==
    {Flatten(ps) : ps \in UNION {[1..n -> Pieces] : n \in 0..MaxPieces}}

InitExtract ==
    /\ memory_enabled = FALSE
    /\ use_redis = FALSE
    /\ memory_store = EmptyDict
    /\ redis_lists = EmptyDict
    /\ redis_ttl = EmptyDict
    /\ last = NoCall
    /\ response \in RawInputs
    /\ extracted = [state |-> "idle"]
    /\ validation = [state |-> "idle"]
    /\ stream = NoStream
    /\ journal = NoJournal
    /\ calls = NoCalls

\* step 4 of query on the text: the value the function returns, and the
\* record the step leaves in result
Extract ==
    /\ extracted.state = "idle"
    /\ extracted' = [state |-> "done",
                     returned |-> extract_json_from_response(response),
                     record |-> ExtractStep(response)]
    /\ UNCHANGED <<calls, memory_enabled, use_redis, memory_store, redis_lists,
                   redis_ttl, last, response, validation, stream, journal>>

NextExtract == Extract

SpecExtract == InitExtract /\ [][NextExtract]_vars

---------------------------------------------------------------------------
(* The contract of RAGResponse (src/schemas.py) *)

Range(s) == {s[i] : i \in 1..Len(s)}

\* Literal["high", "medium", "low"]
ConfidenceLevels == {<<"high">>, <<"medium">>, <<"low">>}

\* ToxicLanguage(threshold=0.5): the sentence "You idiot" is flagged
IsToxic(text) == "T" \in Range(text)

\* DetectPII(["EMAIL_ADDRESS", "PHONE_NUMBER", "SSN"]): the spans it matches
HasPII(text) == "E" \in Range(text)

\* DetectPII with on_fail="fix": every matched span replaced by its
\* placeholder "<EMAIL_ADDRESS>", the rest of the text kept
Redact(text) ==
    [i \in 1..Len(text) |-> IF text[i] = "E" THEN "<EMAIL_ADDRESS>" ELSE text[i]]

---------------------------------------------------------------------------
(* RAGResponse built from a record: the record checked field by field *)

RequiredKeys == {"answer", "confidence", "sources"}

\* a pydantic.ValidationError
Invalid == [ok |-> FALSE, value |-> EmptyDict]

\* (a variant that removes one white-space character at each end, at most)
validate_answer_TrimsOne(v) ==
    LET l == IF v # <<>> /\ IsSpace(Head(v)) THEN Tail(v) ELSE v
        r == IF l # <<>> /\ IsSpace(l[Len(l)]) THEN SubSeq(l, 1, Len(l) - 1) ELSE l
    IN IF v = <<>> \/ StrLen(Strip(v)) < ValidateMinLen
       THEN [ok |-> FALSE, value |-> <<>>]
       ELSE [ok |-> TRUE, value |-> r]

\* RAGResponse.validate_answer: ValueError, or the answer trimmed
validate_answer(v) ==
    IF v = <<>> \/ StrLen(Strip(v)) < ValidateMinLen
    THEN [ok |-> FALSE, value |-> <<>>]
    ELSE [ok |-> TRUE, value |-> Strip(v)]

\* RAGResponse built from the mapping d: every field is required, the answer goes through
\* validate_answer, the confidence is one of the three literals, and a key
\* that is no field is ignored
RAGResponse(d) ==
    IF ~(RequiredKeys \subseteq DOMAIN d) THEN Invalid
    ELSE IF ~validate_answer(d["answer"]).ok THEN Invalid
    ELSE IF d["confidence"] \notin ConfidenceLevels THEN Invalid
    ELSE [ok |-> TRUE,
          value |-> [answer |-> validate_answer(d["answer"]).value,
                     confidence |-> d["confidence"],
                     sources |-> d["sources"]]]

\* the answers given to RAGResponse: blanks, letters and the sentence "X is Y"
RECURSIVE Texts(_)
Texts(n) ==
    IF n = 0 THEN {<<>>}
    ELSE LET shorter == Texts(n - 1) IN
         shorter \cup {<<t>> \o s : t \in {" ", "q", "V"},
                                    s \in {x \in shorter : Len(x) = n - 1}}

\* the records given to RAGResponse: whole, with a key that is no field,
\* and without sources
Candidates ==
    UNION {{[answer |-> a, confidence |-> c, sources |-> <<"a.txt">>],
            [answer |-> a, confidence |-> c, sources |-> <<>>, meta |-> <<"null">>],
            [answer |-> a, confidence |-> c]} :
           a \in Texts(MaxAnswerToks), c \in {<<"high">>, <<"certain">>}}

InitValidate ==
    /\ memory_enabled = FALSE
    /\ use_redis = FALSE
    /\ memory_store = EmptyDict
    /\ redis_lists = EmptyDict
    /\ redis_ttl = EmptyDict
    /\ last = NoCall
    /\ response = <<>>
    /\ extracted = [state |-> "idle"]
    /\ validation \in {[state |-> "idle", candidate |-> c] : c \in Candidates}
    /\ stream = NoStream
    /\ journal = NoJournal
    /\ calls = NoCalls

\* RAGResponse built from the candidate
Validate ==
    /\ validation.state = "idle"
    /\ validation' = [state |-> "validated", candidate |-> validation.candidate,
                      first |-> RAGResponse(validation.candidate)]
    /\ UNCHANGED <<calls, memory_enabled, use_redis, memory_store, redis_lists,
                   redis_ttl, last, response, extracted, stream, journal>>

\* RAGResponse built again from the fields of the first, on a record that was accepted
Revalidate ==
    /\ validation.state = "validated"
    /\ validation.first.ok
    /\ validation' = [state |-> "revalidated", candidate |-> validation.candidate,
                      first |-> validation.first,
                      second |-> RAGResponse(validation.first.value)]
    /\ UNCHANGED <<calls, memory_enabled, use_redis, memory_store, redis_lists,
                   redis_ttl, last, response, extracted, stream, journal>>

NextValidate == Validate \/ Revalidate

SpecValidate == InitValidate /\ [][NextValidate]_vars

---------------------------------------------------------------------------
(* The service of api.py: the engine made at startup, asked by /query and  *)
(* cleared by DELETE /memory, and made again by every document upload and  *)
(* delete                                                                  *)

\* the query the service is asked, and what the model answers
ServiceQueries == {<<"q", "q", "q">>}

ServiceGenerations ==
    {[kind |-> "generation_error", raw |-> <<>>],
     [kind |-> "text", raw |-> <<"{", "A", ",", "C", ",", "S", "}">>]}

\* SecureRAGEngine(vectorstore, enable_memory=True): the engine has a new
\* ConversationMemory, whose __init__ pings Redis: ping is whether Redis
\* answers.  The new object uses Redis when it does; when it does not, the
\* object has a new, empty memory_store.  The keys of Redis are untouched;
\* the memory_store of the engine that was in rag_engine goes with it.
NewEngine(mem, ping) ==
    [memory_enabled |-> TRUE, use_redis |-> ping,
     mem |-> [mem EXCEPT !.store = EmptyDict]]

\* the engine rag_engine holds
Engine ==
    [memory_enabled |-> memory_enabled, use_redis |-> use_redis, mem |-> Mem]

\* the lines both document handlers end with: kb.get_vector_store(
\* force_rebuild=True), then rag_engine = SecureRAGEngine(...).  indexed is
\* whether the handler got as far as the new vector store: an exception
\* before (a file type not allowed, a file not found, the index failing)
\* leaves rag_engine as it was and answers HTTP 500
Rebuild(op, indexed, ping) ==
    \E engine \in {IF indexed THEN NewEngine(Mem, ping) ELSE Engine} :
    /\ memory_enabled' = engine.memory_enabled
    /\ use_redis' = engine.use_redis
    /\ memory_store' = engine.mem.store
    /\ redis_lists' = engine.mem.lists
    /\ redis_ttl' = engine.mem.ttl
    /\ last' = [NoCall EXCEPT !.op = op, !.tick = 1 - last.tick,
                              !.raised = ~indexed]
    /\ UNCHANGED <<calls, response, extracted, validation, stream, journal>>

\* POST /documents/upload
UploadDocument(indexed, ping) == Rebuild("upload", indexed, ping)

\* DELETE /documents/{filename}
DeleteDocument(indexed, ping) == Rebuild("delete", indexed, ping)

\* startup_event: SecureRAGEngine(vectorstore, enable_memory=True)
InitService ==
    /\ Init
    /\ memory_enabled

NextService ==
    \/ \E user_query \in ServiceQueries, session_id \in Sessions,
          gen \in ServiceGenerations : Query(user_query, session_id, gen, "none")
    \/ \E session_id \in Sessions : ClearMemory(session_id)
    \/ \E indexed \in BOOLEAN, ping \in BOOLEAN : UploadDocument(indexed, ping)
    \/ \E indexed \in BOOLEAN, ping \in BOOLEAN : DeleteDocument(indexed, ping)

SpecService == InitService /\ [][NextService]_vars

---------------------------------------------------------------------------
(* The engine asked by /query and by /query/stream and cleared by DELETE   *)
(* /memory: a query or a clear of either session can come while a response *)
(* streamed for session s1, or for no session, is being consumed           *)

\* what the collaborators of one call of query can do: the retriever
\* raises, the model raises or returns the object asked for, a Redis
\* command raises
SessionOutcomes(user_query, session_id) ==
    {o \in Outcomes(user_query, session_id) :
        o.gen.kind = "text" => o.gen.raw = <<"{", "A", ",", "C", ",", "S", "}">>}

\* what the collaborators can do in one resumption of the generator, the
\* model streaming chunks of one content
SessionStreamOutcomes ==
    {o \in StreamOutcomes(stream) : o.kind = "chunk" => o.content = <<"P">>}

NextSessions ==
    \/ \E user_query \in ServiceQueries, session_id \in Sessions :
          \E o \in SessionOutcomes(user_query, session_id) :
              Query(user_query, session_id, o.gen, o.fault)
    \/ \E session_id \in Sessions : ClearMemory(session_id)
    \/ \E user_query \in ServiceQueries, session_id \in StreamSessionIds :
          StreamCall(user_query, session_id)
    \/ \E o \in SessionStreamOutcomes : StreamNext(o)
    \/ StreamClose

SpecSessions == InitService /\ [][NextSessions]_vars

---------------------------------------------------------------------------
(* The same calls, those of one session one after the other: no query and  *)
(* no clear of a session comes while a response streamed for that session  *)
(* is being consumed                                                       *)

\* the generator query_stream made for session id sid has not ended
StreamInFlight(sid) ==
    stream.session_id = sid /\ (stream.pc = "created" \/ Suspended(stream))

TurnQuery(user_query, session_id, gen, fault) ==
    /\ ~StreamInFlight(session_id)
    /\ Query(user_query, session_id, gen, fault)

TurnClear(session_id) ==
    /\ ~StreamInFlight(session_id)
    /\ ClearMemory(session_id)

NextTurns ==
    \/ \E user_query \in ServiceQueries, session_id \in Sessions :
          \E o \in SessionOutcomes(user_query, session_id) :
              TurnQuery(user_query, session_id, o.gen, o.fault)
    \/ \E session_id \in Sessions : TurnClear(session_id)
    \/ \E user_query \in ServiceQueries, session_id \in StreamSessionIds :
          StreamCall(user_query, session_id)
    \/ \E o \in SessionStreamOutcomes : StreamNext(o)
    \/ StreamClose

SpecTurns == InitService /\ [][NextTurns]_vars

---------------------------------------------------------------------------
(* Requests in flight at the same time.  The handlers of api.py are        *)
(* coroutines of one event loop: query has no await, and in query_stream   *)
(* no await stands between the two add_message calls, so in one process    *)
(* the two appends of a request are not separated by another request.  The *)
(* in-process store belongs to one process.  Redis is shared by every      *)
(* process that serves the API, and answers one command at a time: between *)
(* two commands of a request it can answer commands of other requests.     *)

\* the query of request c and the answer generated for it: every request
\* has its own
CallQuery(c) == <<"q", "q">> \o [i \in 1..c |-> "q"]

CallAnswer(c) == [i \in 1..c |-> "P"]

\* the request still has lines of query or query_stream to run
InFlight(c) ==
    calls[c].pc \in {"generating", "user_pushed", "user_saved", "assistant_pushed"}

\* query or query_stream is called with a session id: the input guard is
\* passed, the history is read, the generation is under way
CallBegin(c, kind, sid) ==
    /\ calls[c].pc = "idle"
    /\ calls' = [calls EXCEPT ![c] = [pc |-> "generating", kind |-> kind,
                                      session_id |-> sid, appends |-> 0]]
    /\ UNCHANGED <<memory_enabled, use_redis, memory_store, redis_lists,
                   redis_ttl, last, response, extracted, validation, stream,
                   journal>>

\* the generation has returned, memory_store is in use: add_message for the
\* user message, then add_message for the assistant message
CallSaveInProcess(c) ==
    \E sid \in {calls[c].session_id} :
    \E u \in {add_message_call(FALSE, Mem, sid, "user", CallQuery(c), "none")} :
    \E a \in {add_message_call(FALSE, u.mem, sid, "assistant", CallAnswer(c), "none")} :
    /\ ~use_redis
    /\ calls[c].pc = "generating"
    /\ memory_store' = a.mem.store
    /\ calls' = [calls EXCEPT ![c].pc = "done", ![c].appends = 2]
    /\ journal' = [journal EXCEPT !.appended[sid] =
                      @ \o <<Message("user", CallQuery(c)),
                             Message("assistant", CallAnswer(c))>>]
    /\ UNCHANGED <<memory_enabled, use_redis, redis_lists, redis_ttl, last,
                   response, extracted, validation, stream>>

\* Redis is in use: Redis answers the next command of the request, which
\* is RPUSH and EXPIRE of add_message for the user message, then RPUSH and
\* EXPIRE of add_message for the assistant message
CallCommand(c) ==
    \E sid \in {calls[c].session_id} :
    \E message \in {IF calls[c].pc = "generating"
                    THEN Message("user", CallQuery(c))
                    ELSE Message("assistant", CallAnswer(c))} :
    \E mem \in {IF calls[c].pc \in {"generating", "user_saved"}
                THEN rpush(Mem, sid, json_dumps(message))
                ELSE expire(Mem, sid)} :
    /\ use_redis
    /\ InFlight(c)
    /\ redis_lists' = mem.lists
    /\ redis_ttl' = mem.ttl
    /\ calls' = [calls EXCEPT
                    ![c].pc = CASE calls[c].pc = "generating" -> "user_pushed"
                                [] calls[c].pc = "user_pushed" -> "user_saved"
                                [] calls[c].pc = "user_saved" -> "assistant_pushed"
                                [] OTHER -> "done",
                    ![c].appends = IF calls[c].pc \in {"generating", "user_saved"}
                                   THEN @ + 1 ELSE @]
    /\ journal' = [journal EXCEPT !.appended[sid] =
                      IF calls[c].pc \in {"generating", "user_saved"}
                      THEN Append(@, message) ELSE @]
    /\ UNCHANGED <<memory_enabled, use_redis, memory_store, last, response,
                   extracted, validation, stream>>

\* the request ends where it stands: the retriever or the model raises, the
\* next Redis command raises, or the consumer of query_stream stops
CallFail(c) ==
    /\ InFlight(c)
    /\ calls' = [calls EXCEPT ![c].pc = "failed"]
    /\ UNCHANGED <<memory_enabled, use_redis, memory_store, redis_lists,
                   redis_ttl, last, response, extracted, validation, stream,
                   journal>>

InitConcurrent ==
    /\ Init
    /\ memory_enabled

NextConcurrent ==
    \/ \E c \in CallIds, kind \in {"query", "query_stream"}, sid \in Sessions :
          CallBegin(c, kind, sid)
    \/ \E c \in CallIds : CallSaveInProcess(c)
    \/ \E c \in CallIds : CallCommand(c)
    \/ \E c \in CallIds : CallFail(c)

SpecConcurrent == InitConcurrent /\ [][NextConcurrent]_vars

---------------------------------------------------------------------------
(* Claims about query *)

MemoryVars == <<memory_store, redis_lists, redis_ttl>>

\* the step just taken is a call of query
QueryStep == last'.tick # last.tick /\ last'.op = "query"

NoCollaboratorCall(call) ==
    /\ call.retrieval_calls = 0
    /\ call.generation_calls = 0
    /\ call.memory_reads = 0
    /\ call.memory_appends = 0

\* C1 as stated: a query whose TRIMMED length is below 3 returns the fixed
\* "Query too short." result and calls no collaborator.
C1_TrimmedShortQueryShortCircuits ==
    (last.op = "query" /\ StrLen(Strip(last.user_query)) < MinQueryLen)
        => (last.result = TooShortResult /\ NoCollaboratorCall(last))

\* C1 amended: a query whose length (not trimmed) is below 3 returns exactly
\* {answer: "Query too short.", confidence: "low", sources: []}, raises
\* nothing, makes no retrieval call, no generation call, no memory read and
\* no append, and the step leaves every session's history as it was.
C1_ShortQueryShortCircuits ==
    [][(QueryStep /\ StrLen(last'.user_query) < MinQueryLen)
        => /\ last'.result = TooShortResult
           /\ ~last'.raised
           /\ NoCollaboratorCall(last')
           /\ UNCHANGED MemoryVars]_vars

\* a short query was made on a session that already holds an exchange
C1_Witness ==
    /\ last.op = "query"
    /\ StrLen(last.user_query) < MinQueryLen
    /\ last.session_id # None
    /\ memory_enabled
    /\ Len(History(last.session_id)) = 2
    /\ last.result = TooShortResult

\* C2: the answer query returns has a trimmed length of at least 5 and at
\* most 1000 characters.
C2_AnswerLengthWithinBounds ==
    last.op = "query"
        => /\ StrLen(Strip(last.result.answer)) >= AnswerMinLen
           /\ StrLen(Strip(last.result.answer)) <= AnswerMaxLen

\* C3: the confidence query returns is one of high, medium, low.
C3_ConfidenceInEnum ==
    last.op = "query" => last.result.confidence \in ConfidenceLevels

\* C4: when retrieval or generation fails in a query of length at least 3,
\* nothing is raised and the result is a "System Error:" answer with
\* confidence low and no sources.
C4_CollaboratorFailureBecomesSystemError ==
    (/\ last.op = "query"
     /\ StrLen(last.user_query) >= MinQueryLen
     /\ last.gen.kind \in {"retrieval_error", "generation_error"})
        => /\ ~last.raised
           /\ StartsWith(last.result.answer, <<"SYSERR">>)
           /\ last.result.confidence = <<"low">>
           /\ last.result.sources = <<>>

\* the generation collaborator failed in a call that had read the memory
C4_Witness ==
    /\ last.op = "query"
    /\ last.gen.kind = "generation_error"
    /\ last.generation_calls = 1
    /\ last.memory_reads = 1
    /\ last.result = SystemErrorResult("Egeneration")

\* C5: an answer the toxicity check flags is never returned by query and
\* never stored in the conversation memory.
C5_ToxicAnswerNeverReturnedNorStored ==
    /\ last.op = "query" => ~IsToxic(last.result.answer)
    /\ \A sid \in Sessions : \A i \in 1..Len(History(sid)) :
           History(sid)[i].role = "assistant" => ~IsToxic(History(sid)[i].content)

\* C6: when the candidate's answer holds a personal-identifying span, the
\* answer query returns is that text with the spans redacted.
C6_PIIRedactedInPlace ==
    (/\ last.op = "query"
     /\ last.gen.kind = "text"
     /\ last.fault = "none"
     /\ ~TooShort(last.user_query)
     /\ HasPII(ExtractStep(last.gen.raw).answer))
        => /\ ~HasPII(last.result.answer)
           /\ last.result.answer = Redact(ExtractStep(last.gen.raw).answer)

---------------------------------------------------------------------------
(* Claims about the extraction *)

\* the tokens i..j of s are one well-formed object literal
ObjectAt(s, i, j) ==
    /\ s[i] = "{"
    /\ s[j] = "}"
    /\ json_loads(SubSeq(s, i, j)).kind = "dict"

\* the mapping that object literal denotes
ObjectOf(s, i, j) == json_loads(SubSeq(s, i, j)).d

Spans(s) == {sp \in (1..Len(s)) \X (1..Len(s)) : sp[1] < sp[2]}

\* the value a key gets when the parsed object lacks it
DefaultOf(key, raw) ==
    CASE key = "answer" -> raw
      [] key = "confidence" -> <<"low">>
      [] OTHER -> <<>>

\* rec is the object d with its missing required keys filled in
IsBackfilled(rec, d, raw) ==
    /\ DOMAIN rec = DOMAIN d \cup RequiredKeys
    /\ \A key \in DOMAIN rec :
           rec[key] = IF key \in DOMAIN d THEN d[key] ELSE DefaultOf(key, raw)

\* C7: for every raw text the extraction step yields a mapping that holds
\* the keys answer, confidence and sources; when the parse gave an object,
\* the keys it has keep their values, a missing confidence is "low", a
\* missing sources is [] and a missing answer is the raw text.
C7_ExtractionYieldsAllKeys ==
    extracted.state = "done"
        => /\ RequiredKeys \subseteq DOMAIN extracted.record
           /\ extracted.returned.kind = "dict"
                  => IsBackfilled(extracted.record, extracted.returned.d, response)

\* an object without an answer was parsed: the answer is the raw text, and
\* the sources were filled in
C7_Witness ==
    /\ extracted.state = "done"
    /\ extracted.returned.kind = "dict"
    /\ DOMAIN extracted.returned.d = {"confidence"}
    /\ extracted.record.answer = response
    /\ extracted.record.sources = <<>>
    /\ extracted.record.confidence = <<"high">>

\* none of the three strategies obtains an object from the raw text
NoStrategyObtainsObject(raw) ==
    /\ json_loads(raw).kind # "dict"
    /\ LET m == FencedBlockSearch(raw) IN
           ~(m.found /\ json_loads(Group(raw, m)).kind = "dict")
    /\ LET m == BraceSearch(raw) IN
           ~(m.found /\ json_loads(Group(raw, m)).kind = "dict")

\* the raw text holds no well-formed object literal at all
NoObjectAnywhere(raw) == \A sp \in Spans(raw) : ~ObjectAt(raw, sp[1], sp[2])

\* C8: when no strategy obtains an object (in particular when the raw text
\* holds no object literal at all), the extraction yields exactly
\* {answer: raw, confidence: "low", sources: []}, the raw text unmodified;
\* unless the raw text is itself JSON (a value that is no object), that
\* record is already what _extract_json_from_response returns.
C8_FallbackWrapsRawText ==
    (extracted.state = "done"
     /\ (NoStrategyObtainsObject(response) \/ NoObjectAnywhere(response)))
        => /\ extracted.record =
                  [answer |-> response, confidence |-> <<"low">>, sources |-> <<>>]
           /\ ~json_loads(response).ok
                  => extracted.returned =
                         [kind |-> "dict",
                          d |-> [answer |-> response, confidence |-> <<"low">>,
                                 sources |-> <<>>]]

\* a raw text that starts with white space and holds a braced span that is
\* no object came back whole
C8_Witness ==
    /\ extracted.state = "done"
    /\ NoStrategyObtainsObject(response)
    /\ BraceSearch(response).found
    /\ IsSpace(response[1])
    /\ extracted.record.answer = response
    /\ extracted.returned.kind = "dict"

\* the fenced blocks of the raw text that hold one well-formed object
\* literal: ``` , an optional json tag, white space, the object i..j, white
\* space, ```
FencedObjects(raw) ==
    {sp \in Spans(raw) :
        /\ ObjectAt(raw, sp[1], sp[2])
        /\ \E f \in 1..Len(raw) : raw[f] = "F" /\ FenceGroupStart(raw, f) = sp[1]
        /\ LET r == SkipWs(raw, sp[2] + 1) IN r <= Len(raw) /\ raw[r] = "F"}

\* C9: a raw text that is not itself parseable but contains a fenced block
\* holding a well-formed object yields the fields of that object.
C9_FencedObjectExtracted ==
    (/\ extracted.state = "done"
     /\ ~json_loads(response).ok
     /\ FencedObjects(response) # {})
        => \E sp \in FencedObjects(response) :
               IsBackfilled(extracted.record,
                            ObjectOf(response, sp[1], sp[2]), response)

\* the object literals of the raw text that lie in no other object literal
TopLevelObjects(raw) ==
    {sp \in Spans(raw) :
        /\ ObjectAt(raw, sp[1], sp[2])
        /\ ~\E out \in Spans(raw) :
               /\ ObjectAt(raw, out[1], out[2])
               /\ out[1] < sp[1]
               /\ sp[2] < out[2]}

\* every brace of the raw text lies in the span sp
BracesWithin(raw, sp) ==
    \A i \in 1..Len(raw) : raw[i] \in {"{", "}"} => (sp[1] <= i /\ i <= sp[2])

\* C10: a raw text that is not itself parseable, has no fence, and contains
\* inside prose a well-formed top-level object (no brace outside it) yields
\* the fields of that object, also when the object has nested objects as
\* values.
C10_EmbeddedObjectExtracted ==
    \A sp \in TopLevelObjects(response) :
        (/\ extracted.state = "done"
         /\ ~json_loads(response).ok
         /\ "F" \notin Range(response)
         /\ BracesWithin(response, sp))
            => IsBackfilled(extracted.record,
                            ObjectOf(response, sp[1], sp[2]), response)

---------------------------------------------------------------------------
(* Claims about validation and about what a call leaves in the memory *)

\* C11: validation is idempotent: a record that RAGResponse accepts gives,
\* validated again, the same validated record; validating an already valid
\* record changes nothing.
C11_ValidationIdempotent ==
    validation.state = "revalidated"
        => /\ validation.second.ok
           /\ validation.second.value = validation.first.value

\* a record with white space around its answer and a key that is no field
\* was validated twice: the first validation changed it
C11_Witness ==
    /\ validation.state = "revalidated"
    /\ "meta" \in DOMAIN validation.candidate
    /\ IsSpace(Head(validation.candidate.answer))
    /\ validation.first.value.answer # validation.candidate.answer
    /\ validation.second.value = validation.first.value

\* C12: with memory enabled and a session id, a query call that succeeds
\* (generation returned a text and every memory command went through)
\* appends to that session exactly two messages, the user message with the
\* query and then the assistant message with the answer of the result the
\* call returns, which is the answer extracted from the generated text; no
\* other session changes.
C12_QueryAppendsUserThenAssistant ==
    [][\A sid \in Sessions :
        (/\ QueryStep
         /\ last'.session_id = sid
         /\ memory_enabled
         /\ ~TooShort(last'.user_query)
         /\ last'.gen.kind = "text"
         /\ last'.fault = "none")
            => /\ History(sid)' =
                      History(sid) \o <<Message("user", last'.user_query),
                                        Message("assistant", last'.result.answer)>>
               /\ last'.memory_appends = 2
               /\ last'.result = ExtractStep(last'.gen.raw)
               /\ ~last'.raised
               /\ \A other \in Sessions \ {sid} : History(other)' = History(other)]_vars

\* a query appended its two messages to a session that held a message
C12_Witness ==
    /\ last.op = "query"
    /\ last.memory_appends = 2
    /\ last.session_id # None
    /\ Len(History(last.session_id)) = 3
    /\ History(last.session_id)[2] = Message("user", last.user_query)
    /\ History(last.session_id)[3] = Message("assistant", last.result.answer)

---------------------------------------------------------------------------
(* Claims about query_stream *)

\* the step just taken is a resumption or a close of the generator
StreamStep == stream' # stream /\ stream.pc # "none" /\ stream'.pc # "created"

StreamMadeNoCall(st) ==
    /\ st.retrieval_calls = 0
    /\ st.generation_calls = 0
    /\ st.memory_reads = 0
    /\ st.memory_appends = 0

\* C13: a step of query_stream changes the memory only when the generation
\* is drained and the sequence ends without an error, and then by exactly
\* two messages on the session of the call: the user message, then one
\* assistant message whose content is the concatenation of the fragments
\* yielded (so no session ever holds part of a turn).
C13_StreamSavesWholeTurnOrNothing ==
    [][\A sid \in Sessions :
        (StreamStep /\ History(sid)' # History(sid))
            => /\ stream.session_id = sid
               /\ stream'.outcome = "completed"
               /\ History(sid)' =
                      History(sid) \o <<Message("user", stream.user_query),
                                        Message("assistant", Flatten(stream'.yielded))>>]_vars

\* C14: when the model raises after zero or more fragments, the resumption
\* yields one error fragment after the fragments already yielded (which
\* are the contents streamed so far) and appends nothing; from that yield
\* the sequence only ends, with no further fragment and no append.
C14_GenerationFailureYieldsOneErrorAndSavesNothing ==
    [][/\ (StreamStep /\ stream.outcome = "none"
                      /\ stream'.outcome = "generation_error")
          => /\ stream'.yielded =
                    Append(stream.yielded, ErrorFragment("Egeneration"))
             /\ Flatten(stream.yielded) = stream.full_response
             /\ stream'.pc = "except_yield"
             /\ stream'.memory_appends = 0
             /\ UNCHANGED MemoryVars
       /\ (StreamStep /\ stream.outcome = "generation_error")
          => /\ stream.pc = "except_yield"
             /\ stream'.pc \in {"done", "closed"}
             /\ stream'.yielded = stream.yielded
             /\ stream'.memory_appends = 0
             /\ UNCHANGED MemoryVars]_vars

\* the model raised after two fragments, on a session with memory, and the
\* sequence has ended
C14_Witness ==
    /\ stream.outcome = "generation_error"
    /\ stream.pc = "done"
    /\ Len(stream.yielded) = 3
    /\ stream.yielded[3] = ErrorFragment("Egeneration")
    /\ memory_enabled
    /\ stream.session_id # None
    /\ History(stream.session_id) = <<>>

\* C15: a query of length below 3 makes query_stream yield the one fragment
\* {"error": "Query too short"} and then end, with no retrieval call, no
\* generation call, no memory read and no append.
C15_ShortQueryStreamYieldsOneError ==
    [][/\ (StreamStep /\ stream.pc = "created" /\ stream'.pc # "closed"
                      /\ StrLen(stream.user_query) < MinQueryLen)
          => /\ stream'.yielded = <<ErrorFragment("Query too short")>>
             /\ stream'.pc = "guard_yield"
             /\ StreamMadeNoCall(stream')
             /\ UNCHANGED MemoryVars
       /\ (StreamStep /\ stream.pc = "guard_yield")
          => /\ stream'.pc \in {"done", "closed"}
             /\ stream'.yielded = stream.yielded
             /\ StreamMadeNoCall(stream')
             /\ UNCHANGED MemoryVars]_vars

\* a short query was streamed to its end on a session that holds a turn
C15_Witness ==
    /\ stream.outcome = "guard"
    /\ stream.pc = "done"
    /\ stream.yielded = <<ErrorFragment("Query too short")>>
    /\ stream.session_id # None
    /\ Len(History(stream.session_id)) = 2

---------------------------------------------------------------------------
(* Claims about the conversation memory *)

\* the last min(limit, n) messages of a list of n
LastMin(lst, limit) ==
    IF limit >= Len(lst) THEN lst
    ELSE SubSeq(lst, Len(lst) - limit + 1, Len(lst))

\* C16: get_history(session_id, limit) returns the last min(limit, n) of the
\* n messages appended to the session, oldest first, each as it was
\* appended, for every n >= 0 and every limit >= 0; on Redis as long as no
\* command has failed and no key has expired.
C16_HistoryReturnsLastMinLimitN ==
    [][last'.op = "get_history"
        => LET appended == journal.appended[last'.session_id] IN
           /\ ~last'.ephemeral.raised
           /\ last'.ephemeral.value = LastMin(appended, last'.limit)
           /\ Len(last'.ephemeral.value) <= last'.limit
           /\ (journal'.failures = 0 /\ ~journal.expired)
                  => /\ last'.durable.value = LastMin(appended, last'.limit)
                     /\ Len(last'.durable.value) <= last'.limit]_vars

\* C17: a clear_history(session_id) that returns leaves nothing of the
\* session (its key is gone, as for a session never appended to, and
\* get_history returns [] for every limit), whatever was appended before;
\* the next message appended to the session is then its whole history.
C17_ClearLeavesNothingOfTheSession ==
    [][\A sid \in Sessions :
       /\ (last'.op = "clear_history" /\ last'.session_id = sid
              /\ ~last'.durable.raised)
          => /\ sid \notin DOMAIN redis_lists'
             /\ sid \notin DOMAIN redis_ttl'
             /\ \A limit \in Limits :
                    get_history_call(TRUE, Mem, sid, limit, "none")'.value = <<>>
       /\ (last'.op = "clear_history" /\ last'.session_id = sid)
          => /\ ~last'.ephemeral.raised
             /\ sid \notin DOMAIN memory_store'
             /\ \A limit \in Limits :
                    get_history_call(FALSE, Mem, sid, limit, "none")'.value = <<>>
       /\ (last'.op = "add_message" /\ last.op = "clear_history"
              /\ last'.session_id = sid /\ last.session_id = sid)
          => /\ EphemeralHistory(sid)' = <<last'.message>>
             /\ (~last.durable.raised /\ last'.fault # "rpush")
                    => DurableHistory(sid)' = <<last'.message>>]_vars

\* a session that held two messages was cleared on both objects
C17_Witness ==
    /\ last.op = "clear_history"
    /\ last.removed = 2
    /\ ~last.durable.raised
    /\ DurableHistory(last.session_id) = <<>>
    /\ EphemeralHistory(last.session_id) = <<>>

\* C18: get_history never fails, on either backend; for a session that has
\* no key (never appended to, cleared or expired) it returns []; and it
\* creates no session and changes no stored history.
C18_HistoryNeverFails ==
    [][last'.op = "get_history"
        => /\ ~last'.ephemeral.raised
           /\ ~last'.durable.raised
           /\ last'.session_id \notin DOMAIN memory_store
                  => last'.ephemeral.value = <<>>
           /\ last'.session_id \notin DOMAIN redis_lists
                  => last'.durable.value = <<>>
           /\ UNCHANGED MemoryVars]_vars

C20_EveryKeyExpiresWithinTTL ==
    [][/\ \A sid \in DOMAIN redis_lists' :
              sid \in DOMAIN redis_ttl' /\ redis_ttl'[sid] <= RedisTTL
       /\ \A sid \in Sessions :
              journal'.idle[sid] >= RedisTTL => DurableHistory(sid)' = <<>>
       /\ (last'.op = "add_message" /\ last'.fault # "rpush")
              => /\ last'.session_id \in DOMAIN redis_ttl'
                 /\ redis_ttl'[last'.session_id] = RedisTTL
       /\ last'.op = "get_history" => UNCHANGED redis_ttl]_vars

---------------------------------------------------------------------------
(* Claims about the service *)

\* C21: the memory backend is chosen once, at startup: no operation after
\* startup (query, clear, document upload or delete) probes Redis again or
\* changes the backend in use, so use_redis never changes.
C21_BackendChosenOnceAtStartup ==
    [][use_redis' = use_redis]_vars

\* a is the beginning of b
IsPrefix(a, b) == Len(a) <= Len(b) /\ SubSeq(b, 1, Len(a)) = a

\* the step just taken is DELETE /memory/sid
ClearStep(sid) ==
    last'.tick # last.tick /\ last'.op = "clear" /\ last'.session_id = sid

\* C22: while the in-process backend is in use, the messages appended to a
\* session stay readable: every step of the service that is not a clear of
\* that session (a document upload or delete and the engine rebuild it
\* triggers included) leaves the session's history beginning with the
\* history it had before the step.
C22_EphemeralHistoryStaysUntilCleared ==
    [][\A sid \in Sessions :
          (~use_redis /\ ~ClearStep(sid))
              => IsPrefix(History(sid), History(sid)')]_vars

---------------------------------------------------------------------------
(* Claims about requests in flight at the same time *)

\* m is at place i of h and n at a later place
InOrder(h, m, n) ==
    \E i, j \in 1..Len(h) : i < j /\ h[i] = m /\ h[j] = n

\* C23: under every interleaving of query and query_stream calls in flight
\* at the same time, on one session (a session that did not exist
\* included) or on several, no appended message is lost: the history of
\* every session is exactly the messages appended to it, in the order the
\* backend took them; and the user message of a call stands before the
\* assistant message of the same call.
C23_ConcurrentAppendsAllKeptInOrder ==
    /\ \A sid \in Sessions : History(sid) = journal.appended[sid]
    /\ \A c \in CallIds :
          LET h == History(calls[c].session_id)
              u == Message("user", CallQuery(c))
              a == Message("assistant", CallAnswer(c))
          IN /\ calls[c].appends >= 1 => \E i \in 1..Len(h) : h[i] = u
             /\ calls[c].appends = 2 => InOrder(h, u, a)

\* two calls on one session that did not exist, on Redis, the appends of
\* the one between the appends of the other
C23_Witness ==
    /\ use_redis
    /\ calls[1].pc = "done" /\ calls[2].pc = "done"
    /\ calls[1].kind = "query" /\ calls[2].kind = "query_stream"
    /\ History("s1") = <<Message("user", CallQuery(1)),
                         Message("user", CallQuery(2)),
                         Message("assistant", CallAnswer(2)),
                         Message("assistant", CallAnswer(1))>>

---------------------------------------------------------------------------
(* Claims about sessions *)

\* the step just taken belongs to a call made with session id sid: a call
\* of query, a DELETE /memory, or the call, a resumption or the closing of
\* a query_stream generator
CallStepOn(sid) ==
    \/ /\ last'.tick # last.tick
       /\ last'.op \in {"query", "clear"}
       /\ last'.session_id = sid
    \/ /\ stream' # stream
       /\ stream'.session_id = sid

\* C24: sessions are independent: a call of query or query_stream with one
\* session id, and the get_history, add_message and clear_history it
\* makes, and a clear of that session id, leave what is stored for every
\* other session id as it was.
C24_OtherSessionsUnchanged ==
    [][\A sid, other \in Sessions :
          (CallStepOn(sid) /\ other # sid)
              => /\ Stored(memory_store, other)' = Stored(memory_store, other)
                 /\ Stored(redis_lists, other)' = Stored(redis_lists, other)
                 /\ History(other)' = History(other)]_vars

\* a query with session id s1 has appended, and another has cleared s1,
\* while s2 has a history
C24_Witness ==
    /\ History("s2") # <<>>
    /\ last.session_id = "s1"
    /\ \/ last.op = "query" /\ last.memory_appends = 2
       \/ last.op = "clear" /\ stream.session_id = "s1" /\ stream.memory_appends = 2

---------------------------------------------------------------------------
(* Claims about the generation of a query *)

\* C25: a call of query that passes the input guard invokes the generation
\* at most once; a generation that fails is not tried again: it has been
\* invoked once and the call returns the system-error result.
C25_GenerationInvokedAtMostOnce ==
    (last.op = "query" /\ ~TooShort(last.user_query))
        => /\ last.generation_calls <= 1
           /\ last.gen.kind = "generation_error"
                 => /\ last.generation_calls = 1
                    /\ last.result = SystemErrorResult("Egeneration")
                    /\ ~last.raised

\* a query that passed the guard and whose generation failed
C25_Witness ==
    /\ last.op = "query"
    /\ ~TooShort(last.user_query)
    /\ last.gen.kind = "generation_error"
    /\ last.generation_calls = 1
    /\ last.result = SystemErrorResult("Egeneration")

\* C26: a call of query with a session id, memory enabled, in which the
\* retrieval or the generation fails appends nothing: the history of the
\* session after the call is its history before the call.
C26_FailedQueryAppendsNothing ==
    [][\A sid \in Sessions :
          (/\ QueryStep
           /\ last'.session_id = sid
           /\ memory_enabled
           /\ last'.gen.kind \in {"retrieval_error", "generation_error"})
              => /\ History(sid)' = History(sid)
                 /\ last'.memory_appends = 0]_vars

\* the retrieval failed in a query on a session that has a history
C26_Witness ==
    /\ last.op = "query"
    /\ last.session_id = "s1"
    /\ memory_enabled
    /\ last.gen.kind = "retrieval_error"
    /\ last.memory_reads = 1
    /\ Len(History("s1")) = 2

---------------------------------------------------------------------------
(* Claims about the turns of a session *)

\* user, assistant, user, assistant, ...: an even number of messages
Alternates(h) ==
    /\ Len(h) % 2 = 0
    /\ \A i \in 1..Len(h) :
          h[i].role = IF i % 2 = 1 THEN "user" ELSE "assistant"

\* C27: when the calls on a session do not overlap, then after every
\* sequence of completed calls of query, query_stream and clear, whether
\* they succeeded or ended in an error of the retrieval, the generation or
\* the memory backend, the whole history of the session has even length
\* and alternates user, assistant, beginning with user: no user message
\* is stored without the assistant message of its call.
C27_HistoryAlternatesUserAssistant ==
    \A sid \in Sessions :
        ~StreamInFlight(sid) => Alternates(History(sid))

====
